---------------------------- MODULE Spec2Model ----------------------------
(***************************************************************************)
(* The Shannon stream cipher of src/main.js as a state machine.            *)
(*                                                                         *)
(* A 32-bit word is a sequence of 32 booleans, bit k of the JavaScript     *)
(* int32 at position k + 1 (least significant first), so that every        *)
(* bitwise operator of the source keeps its exact width.  A buffer is a    *)
(* sequence of array elements; element i of the JavaScript array is at     *)
(* position i + 1.  A Shannon object is a record of its closure variables  *)
(* R, CRC, initR, konst, sbuf, mbuf, nbuf.                                 *)
(***************************************************************************)
EXTENDS Integers, Sequences, FiniteSets, TLC

VARIABLES sh,    \* the Shannon objects alive, by name
          call,  \* the last call made: [op, buffer, n]
          ret,   \* what the last call returned (a Buffer), or NULL
          hist   \* bookkeeping of the run (what was fed, which key, how many calls)

vars == <<sh, call, ret, hist>>

----------------------------------------------------------------------------
(* Program constants.                                                      *)

N == 16
FOLD == N
INITKONST == 1771488570   \* 0x6996c53a
KEYP == 13

\* An optional argument is the list of what was passed for it: <<>> when it
\* is omitted (or null), <<x>> when it is x.
NULL == <<>>
Given(x) == <<x>>

\* What reading an array at or past its length, or in a hole, yields; every
\* other array element is a number.
UNDEFINED == -1

----------------------------------------------------------------------------
(* 32-bit words.                                                           *)

Force(w) == w \o <<>>

Bits == 1..32

\* The int32 with the bits of the integer n, 0 <= n < 2^31.
ToWord(n) == Force([k \in Bits |-> k <= 31 /\ (n \div (2 ^ (k - 1))) % 2 = 1])

ZERO == ToWord(0)

Xor(a, b) == Force([k \in Bits |-> a[k] # b[k]])

\* i << d, for 0 <= d < 32.
Shl(a, d) == Force([k \in Bits |-> k - d >= 1 /\ a[k - d]])

\* i >> d (sign-propagating); JavaScript takes the shift count modulo 32.
Sar(a, d) == Force([k \in Bits |-> IF k + (d % 32) <= 32 THEN a[k + (d % 32)] ELSE a[32]])

\* i & 0xFF as a number 0..255.
And255(a) ==
    LET v(k) == IF a[k] THEN 2 ^ (k - 1) ELSE 0
    IN v(1) + v(2) + v(3) + v(4) + v(5) + v(6) + v(7) + v(8)

\* An array element as an int32 operand: undefined converts to 0.
ToInt32(e) == IF e = UNDEFINED THEN ZERO ELSE ToWord(e)

_rotateLeft(i, distance) == Force([k \in Bits |-> i[((k - 1 - distance) % 32) + 1]])

Or(a, b) == Force([k \in Bits |-> a[k] \/ b[k]])

sbox(i) ==
    LET i1 == Xor(i, Or(_rotateLeft(i, 5), _rotateLeft(i, 7)))
    IN Xor(i1, Or(_rotateLeft(i1, 19), _rotateLeft(i1, 22)))

sbox2(i) ==
    LET i1 == Xor(i, Or(_rotateLeft(i, 7), _rotateLeft(i, 22)))
    IN Xor(i1, Or(_rotateLeft(i1, 5), _rotateLeft(i1, 19)))

----------------------------------------------------------------------------
(* The object's state and its private functions.                           *)

\* Element i (from 0) of a 16-word array.
At(A, i) == A[i + 1]

_initArray(n) == [i \in 1..n |-> ZERO] \o <<>>

\* The closure variables as the constructor declares them.
Shannon0 ==
    [R |-> _initArray(N), CRC |-> _initArray(N), initR |-> _initArray(N),
     konst |-> ZERO, sbuf |-> ZERO, mbuf |-> ZERO, nbuf |-> 0]

\* t = sbox(R[12] ^ R[13] ^ konst) ^ rotl(R[0], 1)
feedback(s) ==
    Xor(sbox(Xor(Xor(At(s.R, 12), At(s.R, 13)), s.konst)), _rotateLeft(At(s.R, 0), 1))

\* The register shifted by one word, t its new last word.
shift(R, t) == Append(Tail(R), t)

\* R[0] ^= t; sbuf = t ^ R[8] ^ R[12], R being the shifted register.
output(s, R, t) ==
    [s EXCEPT !.R = [R EXCEPT ![1] = Xor(@, t)],
              !.sbuf = Xor(Xor(t, At(R, 8)), At(R, 12))]

shifted(s, R) == output(s, R, sbox2(Xor(At(R, 2), At(R, 15))))

cycle(s) == shifted(s, shift(s.R, feedback(s)))

crcFunc(s, i) ==
    LET t == Xor(Xor(Xor(At(s.CRC, 0), At(s.CRC, 2)), At(s.CRC, 15)), i)
    IN [s EXCEPT !.CRC = Append(Tail(s.CRC), t)]

macFunc(s, i) == [crcFunc(s, i) EXCEPT !.R[KEYP + 1] = Xor(@, i)]

RECURSIVE Fib(_)
Fib(i) == IF i < 2 THEN 1 ELSE Fib(i - 1) + Fib(i - 2)

initState(s) ==
    [s EXCEPT !.R = [i \in 1..N |-> ToWord(Fib(i - 1))] \o <<>>,
              !.konst = ToWord(INITKONST)]

saveState(s) == [s EXCEPT !.initR = s.R]

\* A nonce that starts from the register as the last message left it.
reloadState_skip(s) == s

reloadState(s) == [s EXCEPT !.R = s.initR]

genKonst(s) == [s EXCEPT !.konst = At(s.R, 0)]

addKey(s, k) == [s EXCEPT !.R[KEYP + 1] = Xor(@, k)]

RECURSIVE diffuseFrom(_, _)
diffuseFrom(s, i) == IF i < FOLD THEN diffuseFrom(cycle(s), i + 1) ELSE s

diffuse(s) == diffuseFrom(s, 0)

----------------------------------------------------------------------------
(* Arrays of bytes.                                                        *)

\* buffer[i]: undefined at or past the array's length.
Get(buffer, i) == IF i < Len(buffer) THEN buffer[i + 1] ELSE UNDEFINED

\* buffer[i] = v: an assignment past the end grows the array, leaving holes.
Set(buffer, i, v) ==
    IF i < Len(buffer)
    THEN [buffer EXCEPT ![i + 1] = v]
    ELSE buffer \o [k \in 1..(i - Len(buffer)) |-> UNDEFINED] \o <<v>>

\* Bit j of (e & 0xFF).
ByteBit(e, j) == e # UNDEFINED /\ (e \div (2 ^ j)) % 2 = 1

\* (e & 0xFF) << d.
ByteShl(e, d) ==
    Force([k \in Bits |-> k - 1 >= d /\ k - 1 < d + 8 /\ ByteBit(e, k - 1 - d)])

\* ((b[i+3] & 0xFF) << 24) | ((b[i+2] & 0xFF) << 16) | ((b[i+1] & 0xFF) << 8) | (b[i] & 0xFF)
Pack(buffer, i) ==
    Force([k \in Bits |-> ByteBit(Get(buffer, i + ((k - 1) \div 8)), (k - 1) % 8)])

\* buffer[i+3] = (t >> 24) & 0xFF; ... ; buffer[i] = t & 0xFF, in that order.
Unpack(buffer, i, t) ==
    Set(Set(Set(Set(buffer, i + 3, And255(Sar(t, 24))),
                            i + 2, And255(Sar(t, 16))),
                            i + 1, And255(Sar(t, 8))),
                            i, And255(t))

\* Buffer.from(array): each element as a byte, undefined as 0.
BufferFrom(buffer) ==
    [k \in 1..Len(buffer) |-> IF buffer[k] = UNDEFINED THEN 0 ELSE buffer[k] % 256] \o <<>>

_bufferToArray(buffer) == [k \in 1..Len(buffer) |-> buffer[k]] \o <<>>

\* x & ~0x03 for a number x >= 0.
AndNot3(x) == x - (x % 4)

\* x & 0x03 for a number x >= 0.
And3(x) == x % 4

----------------------------------------------------------------------------
(* Key and nonce loading.                                                  *)

RECURSIVE loadKeyWords(_, _, _)
loadKeyWords(s, _key, i) ==
    IF i < AndNot3(Len(_key))
    THEN loadKeyWords(cycle(addKey(s, Pack(_key, i))), _key, i + 4)
    ELSE s

\* The bytes after the last whole word, zero padded to a word.
extra(_key, i) == [j \in 1..4 |-> IF i + j - 1 < Len(_key) THEN _key[i + j] ELSE 0] \o <<>>

loadKeyExtra(s, _key, i) ==
    IF i < Len(_key) THEN cycle(addKey(s, Pack(extra(_key, i), 0))) ELSE s

\* for(i = 0; i < N; i++) CRC[i] = R[i];
copyToCRC(s) == [s EXCEPT !.CRC = s.R]

\* for(i = 0; i < N; i++) R[i] ^= CRC[i];
xorCRC(s) == [s EXCEPT !.R = [i \in 1..N |-> Xor(s.R[i], s.CRC[i])] \o <<>>]

loadKey(s, _key) ==
    xorCRC(diffuse(copyToCRC(cycle(addKey(
        loadKeyExtra(loadKeyWords(s, _key, 0), _key, AndNot3(Len(_key))),
        ToWord(Len(_key)))))))

key(s, _key) ==
    [saveState(genKonst(loadKey(initState(s), _bufferToArray(_key))))
        EXCEPT !.nbuf = 0]

reloadKonst(s) == [s EXCEPT !.konst = ToWord(INITKONST)]

nonce(s, _nonce) ==
    [genKonst(loadKey(reloadKonst(reloadState(s)), _bufferToArray(_nonce)))
        EXCEPT !.nbuf = 0]

\* new Shannon(options)
Shannon(options) == IF options # NULL THEN key(Shannon0, options[1]) ELSE Shannon0

----------------------------------------------------------------------------
(* The streaming operations.  Each loop of the source is an operator over  *)
(* the locals it updates: L = [s, buffer, i, n], s being the object.       *)

\* buffer[i] ^ ((w >> d) & 0xFF), for a byte or undefined buffer[i].
XorByte(e, w, d) == And255(Xor(ToInt32(e), Sar(w, d)))

\* buffer[i] ^= (w >> d) & 0xFF
XorAt(buffer, i, w, d) == Set(buffer, i, XorByte(Get(buffer, i), w, d))

Locals(s, buffer, n) == [s |-> s, buffer |-> buffer, i |-> 0, n |-> n]

\* The requested length: n, or buffer.length when n is omitted.
Length(buffer, n) == IF n = NULL THEN Len(buffer) ELSE n[1]

\* return Buffer.from(buffer)
Return(L) == [s |-> L.s, ret |-> BufferFrom(L.buffer)]

\* cycle(); nbuf = 32 (and mbuf = 0 in the MAC operations), n &= 0x03.
Refill(L, n, mac) ==
    [L EXCEPT !.n = n,
              !.s = [cycle(L.s) EXCEPT !.nbuf = 32,
                                       !.mbuf = IF mac THEN ZERO ELSE @]]

\* A call that drops the word the earlier calls had buffered.
Flush_skip(L) == L

\* LFSR already cycled: macFunc(mbuf).
Flush(L) == [L EXCEPT !.s = macFunc(L.s, L.s.mbuf)]

RECURSIVE streamBytes(_)
streamBytes(L) ==
    IF L.s.nbuf # 0 /\ L.n # 0
    THEN streamBytes(
           [s |-> [L.s EXCEPT !.sbuf = Sar(@, 8), !.nbuf = @ - 8],
            buffer |-> XorAt(L.buffer, L.i, L.s.sbuf, 0),
            i |-> L.i + 1, n |-> L.n - 1])
    ELSE L

streamWord(L, s) ==
    [L EXCEPT !.s = s,
              !.buffer = XorAt(XorAt(XorAt(XorAt(@, L.i + 3, s.sbuf, 24),
                                           L.i + 2, s.sbuf, 16),
                                     L.i + 1, s.sbuf, 8),
                               L.i, s.sbuf, 0),
              !.i = @ + 4]

RECURSIVE streamWords(_, _)
streamWords(L, j) == IF L.i < j THEN streamWords(streamWord(L, cycle(L.s)), j) ELSE L

streamTail(L, n) == IF n # 0 THEN streamBytes(Refill(L, n, FALSE)) ELSE [L EXCEPT !.n = n]

streamRest(L) == streamTail(streamWords(L, AndNot3(L.n)), And3(L.n))

stream(s, buffer) ==
    Return(streamRest(streamBytes(Locals(s, _bufferToArray(buffer), Len(buffer)))))

RECURSIVE macOnlyBytes(_)
macOnlyBytes(L) ==
    IF L.s.nbuf # 0 /\ L.n # 0
    THEN macOnlyBytes(
           [s |-> [L.s EXCEPT
                     !.mbuf = Xor(@, Shl(ToInt32(Get(L.buffer, L.i)), (32 - L.s.nbuf) % 32)),
                     !.nbuf = @ - 8],
            buffer |-> L.buffer,
            i |-> L.i + 1, n |-> L.n - 1])
    ELSE L

RECURSIVE macOnlyWords(_, _)
macOnlyWords(L, j) ==
    IF L.i < j
    THEN macOnlyWords([L EXCEPT !.s = macFunc(cycle(L.s), Pack(L.buffer, L.i)),
                                !.i = @ + 4], j)
    ELSE L

macOnlyTail(L, n) == IF n # 0 THEN macOnlyBytes(Refill(L, n, TRUE)) ELSE [L EXCEPT !.n = n]

macOnlyRest(L) == macOnlyTail(macOnlyWords(L, AndNot3(L.n)), And3(L.n))

\* After the buffered bytes: return if the word is not whole yet.
macOnlyBuffered(L) == IF L.s.nbuf # 0 THEN L ELSE macOnlyRest(Flush(L))

macOnlyLocals(L) ==
    IF L.s.nbuf # 0 THEN macOnlyBuffered(macOnlyBytes(L)) ELSE macOnlyRest(L)

macOnly(s, buffer) ==
    Return(macOnlyLocals(Locals(s, _bufferToArray(buffer), Len(buffer))))

RECURSIVE encryptBytes(_)
encryptBytes(L) ==
    IF L.s.nbuf # 0 /\ L.n # 0
    THEN encryptBytes(
           [s |-> [L.s EXCEPT
                     !.mbuf = Xor(@, ByteShl(Get(L.buffer, L.i), (32 - L.s.nbuf) % 32)),
                     !.nbuf = @ - 8],
            buffer |-> XorAt(L.buffer, L.i, L.s.sbuf, 32 - L.s.nbuf),
            i |-> L.i + 1, n |-> L.n - 1])
    ELSE L

\* One whole word: s is the cycled object, t the packed plaintext word.
encryptWord(L, s, t) ==
    [L EXCEPT !.s = macFunc(s, t),
              !.buffer = Unpack(@, L.i, Xor(t, s.sbuf)),
              !.i = @ + 4]

RECURSIVE encryptWords(_, _)
encryptWords(L, j) ==
    IF L.i < j
    THEN encryptWords(encryptWord(L, cycle(L.s), Pack(L.buffer, L.i)), j)
    ELSE L

encryptTail(L, n) == IF n # 0 THEN encryptBytes(Refill(L, n, TRUE)) ELSE [L EXCEPT !.n = n]

encryptRest(L) == encryptTail(encryptWords(L, AndNot3(L.n)), And3(L.n))

encryptBuffered(L) == IF L.s.nbuf # 0 THEN L ELSE encryptRest(Flush(L))

encryptLocals(L) ==
    IF L.s.nbuf # 0 THEN encryptBuffered(encryptBytes(L)) ELSE encryptRest(L)

encrypt(s, buffer, n) ==
    Return(encryptLocals(Locals(s, _bufferToArray(buffer), Length(buffer, n))))

\* buffer[i] ^= keystream byte, then mbuf ^= the recovered byte b.
decryptByte(L, b) ==
    [s |-> [L.s EXCEPT !.mbuf = Xor(@, ByteShl(b, (32 - L.s.nbuf) % 32)),
                       !.nbuf = @ - 8],
     buffer |-> Set(L.buffer, L.i, b),
     i |-> L.i + 1, n |-> L.n - 1]

RECURSIVE decryptBytes(_)
decryptBytes(L) ==
    IF L.s.nbuf # 0 /\ L.n # 0
    THEN decryptBytes(decryptByte(L, XorByte(Get(L.buffer, L.i), L.s.sbuf, 32 - L.s.nbuf)))
    ELSE L

\* A decrypt that accumulates the ciphertext word instead of the plaintext.
decryptWord_macsCiphertext(L, s, t) ==
    [L EXCEPT !.s = macFunc(s, Xor(t, s.sbuf)),
              !.buffer = Unpack(@, L.i, t),
              !.i = @ + 4]

\* One whole word: s is the cycled object, t the recovered plaintext word.
decryptWord(L, s, t) ==
    [L EXCEPT !.s = macFunc(s, t),
              !.buffer = Unpack(@, L.i, t),
              !.i = @ + 4]

\* A decrypt that leaves whole words as they came.
decryptXor_keepsCiphertext(L, s) == decryptWord(L, s, Pack(L.buffer, L.i))

\* t = the packed word; t ^= sbuf
decryptXor(L, s) == decryptWord(L, s, Xor(Pack(L.buffer, L.i), s.sbuf))

RECURSIVE decryptWords(_, _)
decryptWords(L, j) ==
    IF L.i < j THEN decryptWords(decryptXor(L, cycle(L.s)), j) ELSE L

decryptTail(L, n) == IF n # 0 THEN decryptBytes(Refill(L, n, TRUE)) ELSE [L EXCEPT !.n = n]

decryptRest(L) == decryptTail(decryptWords(L, AndNot3(L.n)), And3(L.n))

decryptBuffered(L) == IF L.s.nbuf # 0 THEN L ELSE decryptRest(Flush(L))

decryptLocals(L) ==
    IF L.s.nbuf # 0 THEN decryptBuffered(decryptBytes(L)) ELSE decryptRest(L)

decrypt(s, buffer, n) ==
    Return(decryptLocals(Locals(s, _bufferToArray(buffer), Length(buffer, n))))

----------------------------------------------------------------------------
(* MAC finalization.                                                       *)

\* if(nbuf != 0) macFunc(mbuf);
finishFlush(s) == IF s.nbuf # 0 THEN macFunc(s, s.mbuf) ELSE s

\* A finish that leaves nbuf as it found it.
finishPerturb_keepsNbuf(s) ==
    addKey(cycle(s), Xor(ToWord(INITKONST), ToWord(s.nbuf * 8)))

\* cycle(); addKey(INITKONST ^ (nbuf << 3)); nbuf = 0;
finishPerturb(s) ==
    [addKey(cycle(s), Xor(ToWord(INITKONST), ToWord(s.nbuf * 8))) EXCEPT !.nbuf = 0]

\* Everything finish does before it produces output: flush, perturb, add the
\* CRC to the register, diffuse.
finishMix(s) == diffuse(xorCRC(finishPerturb(finishFlush(s))))

\* for(j = 0; j < n; j++) buffer[i + j] = (sbuf >> (i * 8)) & 0xFF;
RECURSIVE finishTail(_, _, _, _, _)
finishTail(buffer, sbuf, i, j, n) ==
    IF j < n
    THEN finishTail(Set(buffer, i + j, And255(Sar(sbuf, i * 8))), sbuf, i, j + 1, n)
    ELSE buffer

\* One turn of the output loop, s being the cycled object; the loop goes on
\* after a whole word and breaks after a part of one.
RECURSIVE finishOutput(_)
finishWord(L, s) ==
    IF L.n >= 4
    THEN finishOutput([s |-> s, buffer |-> Unpack(L.buffer, L.i, s.sbuf),
                       i |-> L.i + 4, n |-> L.n - 4])
    ELSE [L EXCEPT !.s = s, !.buffer = finishTail(@, s.sbuf, L.i, 0, L.n)]

finishOutput(L) == IF L.n > 0 THEN finishWord(L, cycle(L.s)) ELSE L

finish(s, buffer, n) ==
    Return(finishOutput(Locals(finishMix(s), _bufferToArray(buffer), Length(buffer, n))))

\* sbuf after the m-th cycle() of finish's output loop, s being the object
\* finish is called on.
RECURSIVE cycles(_, _)
cycles(s, m) == IF m = 0 THEN s ELSE cycles(cycle(s), m - 1)

OutputWord(s, m) == cycles(finishMix(s), m).sbuf

----------------------------------------------------------------------------
(* Inputs.                                                                 *)

MaxCalls == 2      \* calls made on an object after its construction

\* The key of the repository's test, and a key of a whole number of words.
Keys == << <<101, 135, 216, 143, 108, 50, 157, 138, 228, 107>>, <<1, 2, 3, 4>> >>

Nonces == << <<0, 0, 0, 1, 2>> >>

Hello == <<72, 101, 108, 108, 111>>

Zeros(n) == [i \in 1..n |-> 0] \o <<>>

\* (buffer, n) of the calls of a streaming operation: the whole buffer, fewer
\* bytes than the buffer holds, more bytes than it holds.
StreamArgs == { <<Hello, NULL>>, <<Hello, Given(3)>>, <<<<200, 17>>, Given(3)>> }

\* (buffer, n) of the calls of finish, likewise.
FinishArgs == { <<Zeros(4), NULL>>, <<Zeros(8), Given(6)>>, <<Zeros(2), Given(3)>> }

\* A fresh object keyed with each key, and then given each nonce.
Keyed == [k \in 1..Len(Keys) |-> key(Shannon0, Keys[k])] \o <<>>

Nonced == [k \in 1..Len(Keys) |->
             [v \in 1..Len(Nonces) |-> nonce(Keyed[k], Nonces[v])] \o <<>>] \o <<>>

----------------------------------------------------------------------------
(* Spec: one object, a, and any calls of its seven methods.                *)
(* hist = [calls, key, nonce, pre]: the number of calls made, which key    *)
(* and nonce a was last given (0: none), and a as it was before the call.  *)

StreamingOps == {"stream", "macOnly", "encrypt", "decrypt"}

\* obj.op(buffer, n).  stream and macOnly declare one parameter: a second
\* argument is not read.
Apply(op, s, buffer, n) ==
    CASE op = "stream"  -> stream(s, buffer)
      [] op = "macOnly" -> macOnly(s, buffer)
      [] op = "encrypt" -> encrypt(s, buffer, n)
      [] op = "decrypt" -> decrypt(s, buffer, n)
      [] op = "finish"  -> finish(s, buffer, n)

Init ==
    \E o \in 0..Len(Keys) :
        /\ sh = [a |-> IF o = 0 THEN Shannon(NULL) ELSE Shannon(Given(Keys[o]))]
        /\ call = [op |-> "new", buffer |-> <<>>, n |-> NULL]
        /\ ret = NULL
        /\ hist = [calls |-> 0, key |-> o, nonce |-> 0, pre |-> Shannon0]

\* The call a.op(buffer, n) is made; r is what the method computes.
Call(op, buffer, n, r) ==
    /\ call' = [op |-> op, buffer |-> buffer, n |-> n]
    /\ sh' = [a |-> r.s]
    /\ ret' = Given(r.ret)
    /\ hist' = [hist EXCEPT !.calls = @ + 1, !.pre = sh.a]

SetKey ==
    \E k \in 1..Len(Keys) :
        /\ hist.calls < MaxCalls
        /\ call' = [op |-> "key", buffer |-> Keys[k], n |-> NULL]
        /\ sh' = [a |-> key(sh.a, Keys[k])]
        /\ ret' = NULL
        /\ hist' = [calls |-> hist.calls + 1, key |-> k, nonce |-> 0, pre |-> sh.a]

SetNonce ==
    \E v \in 1..Len(Nonces) :
        /\ hist.calls < MaxCalls
        /\ call' = [op |-> "nonce", buffer |-> Nonces[v], n |-> NULL]
        /\ sh' = [a |-> nonce(sh.a, Nonces[v])]
        /\ ret' = NULL
        /\ hist' = [calls |-> hist.calls + 1, key |-> hist.key, nonce |-> v, pre |-> sh.a]

Stream ==
    /\ hist.calls < MaxCalls
    /\ \E x \in StreamArgs : \E r \in {stream(sh.a, x[1])} : Call("stream", x[1], x[2], r)

MacOnly ==
    /\ hist.calls < MaxCalls
    /\ \E x \in StreamArgs : \E r \in {macOnly(sh.a, x[1])} : Call("macOnly", x[1], x[2], r)

Encrypt ==
    /\ hist.calls < MaxCalls
    /\ \E x \in StreamArgs : \E r \in {encrypt(sh.a, x[1], x[2])} : Call("encrypt", x[1], x[2], r)

Decrypt ==
    /\ hist.calls < MaxCalls
    /\ \E x \in StreamArgs : \E r \in {decrypt(sh.a, x[1], x[2])} : Call("decrypt", x[1], x[2], r)

Finish ==
    /\ hist.calls < MaxCalls
    /\ \E x \in FinishArgs : \E r \in {finish(sh.a, x[1], x[2])} : Call("finish", x[1], x[2], r)

Next == SetKey \/ SetNonce \/ Stream \/ MacOnly \/ Encrypt \/ Decrypt \/ Finish

Spec == Init /\ [][Next]_vars

----------------------------------------------------------------------------
(* SpecChunks: one message fed piece by piece.  Four objects set up alike  *)
(* take the pieces: enc encrypts them, dec decrypts what enc returned, mac *)
(* accumulates them, str applies the keystream to them; then finish is     *)
(* called on each.  fresh stays as the four were set up.                   *)
(* hist = [key, nonce, msg, fed, cut, cipher, plain, macd, streamed]: the  *)
(* set-up, the message, how many of its bytes were fed, whether a piece    *)
(* began inside a 4-byte word, and what the calls returned, concatenated.  *)
(* call names the last step only and ret is what finish returned: the      *)
(* pieces are the steps themselves, and what they returned is in hist.     *)

MaxLen == 12       \* bytes of the message

Seeds == {3, 200}

Message(seed) == [i \in 1..MaxLen |-> (seed * i * i + 41 * i + seed) % 256] \o <<>>

TagLens == {1, 6, 16}

Setup(k, v) == IF v = 0 THEN Keyed[k] ELSE Nonced[k][v]

None == [enc |-> <<>>, dec |-> <<>>, mac |-> <<>>, str |-> <<>>]

InitChunks ==
    \E k \in 1..Len(Keys), v \in 0..Len(Nonces), seed \in Seeds :
        /\ sh = [enc |-> Setup(k, v), dec |-> Setup(k, v), mac |-> Setup(k, v),
                 str |-> Setup(k, v), fresh |-> Setup(k, v)]
        /\ call = [op |-> "new", buffer |-> <<>>, n |-> NULL]
        /\ ret = None
        /\ hist = [key |-> k, nonce |-> v, msg |-> Message(seed), fed |-> 0,
                   cut |-> FALSE, cipher |-> <<>>, plain |-> <<>>,
                   macd |-> <<>>, streamed |-> <<>>]

\* The next len bytes of the message go through one call on each object.
Feed ==
    /\ call.op # "finish"
    /\ \E len \in 0..(MaxLen - hist.fed) :
      \E chunk \in {SubSeq(hist.msg, hist.fed + 1, hist.fed + len)} :
        \E e \in {encrypt(sh.enc, chunk, NULL)} :
          \E d \in {decrypt(sh.dec, e.ret, NULL)},
             m \in {macOnly(sh.mac, chunk)},
             s \in {stream(sh.str, chunk)} :
            /\ sh' = [sh EXCEPT !.enc = e.s, !.dec = d.s, !.mac = m.s, !.str = s.s]
            /\ call' = [op |-> "feed", buffer |-> <<>>, n |-> NULL]
            /\ ret' = None
            /\ hist' = [hist EXCEPT !.fed = @ + len,
                                    !.cut = @ \/ (hist.fed % 4 # 0 /\ len > 0),
                                    !.cipher = @ \o e.ret,
                                    !.plain = @ \o d.ret,
                                    !.macd = @ \o m.ret,
                                    !.streamed = @ \o s.ret]

\* finish, for a tag of n bytes, on each object.
Tag ==
    /\ call.op # "finish"
    /\ \E n \in TagLens :
      \E e \in {finish(sh.enc, Zeros(n), NULL)},
         d \in {finish(sh.dec, Zeros(n), NULL)},
         m \in {finish(sh.mac, Zeros(n), NULL)},
         s \in {finish(sh.str, Zeros(n), NULL)} :
        /\ sh' = [sh EXCEPT !.enc = e.s, !.dec = d.s, !.mac = m.s, !.str = s.s]
        /\ call' = [op |-> "finish", buffer |-> Zeros(n), n |-> NULL]
        /\ ret' = [enc |-> e.ret, dec |-> d.ret, mac |-> m.ret, str |-> s.ret]
        /\ hist' = hist

NextChunks == Feed \/ Tag

SpecChunks == InitChunks /\ [][NextChunks]_vars

\* The bytes of the message fed so far.
Fed == SubSeq(hist.msg, 1, hist.fed)

\* One call of op over all that was fed, on an object set up like the four.
Whole(op) == Apply(op, sh.fresh, IF op = "decrypt" THEN hist.cipher ELSE Fed, NULL)

----------------------------------------------------------------------------
(* SpecRekey: an object with an earlier session, used, is given a key; a   *)
(* second object, fresh, is constructed with that key; then the same calls *)
(* are made on both.  hist = [phase, calls, key].                          *)

MaxEarlier == 1    \* calls of the earlier session

RekeyBuffers == {Hello, <<200, 17>>}

InitRekey ==
    \E o \in 0..Len(Keys) :
        /\ sh = [used |-> IF o = 0 THEN Shannon(NULL) ELSE Shannon(Given(Keys[o])),
                 fresh |-> Shannon(NULL)]
        /\ call = [op |-> "new", buffer |-> <<>>, n |-> NULL]
        /\ ret = [used |-> <<>>, fresh |-> <<>>]
        /\ hist = [phase |-> "old", calls |-> 0, key |-> o]

\* A call of the earlier session.
Earlier ==
    /\ hist.phase = "old"
    /\ hist.calls < MaxEarlier
    /\ \E op \in StreamingOps \cup {"finish"}, buffer \in RekeyBuffers :
      \E r \in {Apply(op, sh.used, buffer, NULL)} :
        /\ sh' = [sh EXCEPT !.used = r.s]
        /\ call' = [op |-> op, buffer |-> buffer, n |-> NULL]
        /\ ret' = [used |-> r.ret, fresh |-> <<>>]
        /\ hist' = [hist EXCEPT !.calls = @ + 1]

\* used.key(K), and fresh = new Shannon(K).
Rekey ==
    /\ hist.phase = "old"
    /\ \E k \in 1..Len(Keys) :
        /\ sh' = [used |-> key(sh.used, Keys[k]), fresh |-> Shannon(Given(Keys[k]))]
        /\ call' = [op |-> "key", buffer |-> Keys[k], n |-> NULL]
        /\ ret' = [used |-> <<>>, fresh |-> <<>>]
        /\ hist' = [phase |-> "new", calls |-> 0, key |-> k]

\* The same call on both objects.
Later ==
    /\ hist.phase = "new"
    /\ hist.calls < MaxCalls
    /\ \E op \in StreamingOps \cup {"finish"}, buffer \in RekeyBuffers :
      \E r \in {Apply(op, sh.used, buffer, NULL)}, f \in {Apply(op, sh.fresh, buffer, NULL)} :
        /\ sh' = [used |-> r.s, fresh |-> f.s]
        /\ call' = [op |-> op, buffer |-> buffer, n |-> NULL]
        /\ ret' = [used |-> r.ret, fresh |-> f.ret]
        /\ hist' = [hist EXCEPT !.calls = @ + 1]

\* The same nonce on both objects.
LaterNonce ==
    \E v \in 1..Len(Nonces) :
        /\ hist.phase = "new"
        /\ hist.calls < MaxCalls
        /\ sh' = [used |-> nonce(sh.used, Nonces[v]), fresh |-> nonce(sh.fresh, Nonces[v])]
        /\ call' = [op |-> "nonce", buffer |-> Nonces[v], n |-> NULL]
        /\ ret' = [used |-> <<>>, fresh |-> <<>>]
        /\ hist' = [hist EXCEPT !.calls = @ + 1]

NextRekey == Earlier \/ Rekey \/ Later \/ LaterNonce

SpecRekey == InitRekey /\ [][NextRekey]_vars

----------------------------------------------------------------------------
(* Claims about one object under any calls (Spec).                         *)

\* C10: in every reachable state nbuf is a multiple of 8 with 0 <= nbuf <= 32,
\* and nbuf = 0 immediately after every key, nonce and finish call.
C10_NbufMultipleOf8 ==
    /\ sh.a.nbuf \in {0, 8, 16, 24, 32}
    /\ call.op \in {"key", "nonce", "finish"} => sh.a.nbuf = 0

\* A finish, and a nonce, called on an object that held buffered bytes.
C10_Witness ==
    /\ call.op \in {"finish", "nonce"}
    /\ hist.pre.nbuf \in {8, 16, 24}
    /\ sh.a.nbuf = 0

\* C6: initR is written only by key: it is the snapshot of the last key given,
\* whatever nonce, streaming and finish calls came after; and R, CRC, konst
\* and nbuf immediately after nonce(V) are those of key(K); nonce(V) on a
\* fresh object.
C6_NonceReloadsKeySnapshot ==
    /\ sh.a.initR = IF hist.key = 0 THEN Shannon0.initR ELSE Keyed[hist.key].initR
    /\ (call.op = "nonce" /\ hist.key # 0) =>
          /\ sh.a.R = Nonced[hist.key][hist.nonce].R
          /\ sh.a.CRC = Nonced[hist.key][hist.nonce].CRC
          /\ sh.a.konst = Nonced[hist.key][hist.nonce].konst
          /\ sh.a.nbuf = Nonced[hist.key][hist.nonce].nbuf

\* nonce called on a keyed object whose register an earlier call has moved.
C6_Witness ==
    /\ call.op = "nonce"
    /\ hist.key # 0
    /\ hist.calls = 2
    /\ hist.pre.R # hist.pre.initR
    /\ sh.a.R = Nonced[hist.key][hist.nonce].R

\* C4: on a keyed object finish(buffer, n) writes n tag bytes, byte k being byte (k mod 4),
\* least significant first, of the (k div 4 + 1)-th output word, the last
\* 1 to 3 bytes of a tag whose length is no multiple of 4 included.
C4_TagIsLittleEndianOutput ==
    (hist.key # 0 /\ call.op = "finish" /\ Length(call.buffer, call.n) <= Len(call.buffer)) =>
        \A k \in 0..(Length(call.buffer, call.n) - 1) :
            ret[1][k + 1] = And255(Sar(OutputWord(hist.pre, (k \div 4) + 1), 8 * (k % 4)))

\* C7: on a keyed object a call of a streaming operation or of finish whose requested length
\* exceeds the length of the buffer fails: it returns no result.
C7_LengthBeyondBufferFails ==
    (/\ hist.key # 0
     /\ call.op \in StreamingOps \cup {"finish"}
     /\ call.n # NULL
     /\ Length(call.buffer, call.n) > Len(call.buffer)) => ret = NULL

\* C8: on an object that key was never called on, a streaming operation or
\* finish fails and produces no output.
C8_UnkeyedCallFails ==
    (hist.key = 0 /\ call.op \in StreamingOps \cup {"finish"}) => ret = NULL

\* C9: on a keyed object each of the four streaming operations, asked for n bytes fewer than
\* the buffer holds, processes the first n bytes, returns the others
\* unchanged, and leaves the state the same call on the first n bytes leaves.
C9_ShorterLengthHonoured ==
    (/\ hist.key # 0
     /\ call.op \in StreamingOps
     /\ call.n # NULL
     /\ Length(call.buffer, call.n) < Len(call.buffer)) =>
        \E r \in {Apply(call.op, hist.pre, SubSeq(call.buffer, 1, call.n[1]), NULL)} :
            /\ ret[1] = r.ret \o SubSeq(call.buffer, call.n[1] + 1, Len(call.buffer))
            /\ sh.a = r.s

----------------------------------------------------------------------------
(* Claims about a message fed in pieces (SpecChunks).                      *)

\* C1: for every key, nonce or none, plaintext and split of it into pieces,
\* decrypting the ciphertext pieces encrypt returned, with the same split, on
\* a second object set up alike returns the bytes of the plaintext.
C1_RoundTrip == hist.plain = Fed

\* The whole message went through, in pieces of which one began inside a
\* word, and the ciphertext is not the plaintext.
C1_Witness ==
    /\ call.op = "feed"
    /\ hist.fed = MaxLen
    /\ hist.cut
    /\ hist.plain = hist.msg
    /\ hist.cipher # hist.msg

\* C2: for every tag length, the tag finish returns after encrypt(P) is the
\* tag it returns after decrypt(C) and the tag it returns after macOnly(P),
\* under the same key and nonce.
C2_MacDirectionAgnostic ==
    call.op = "finish" => (ret.enc = ret.dec /\ ret.enc = ret.mac)

\* A 16-byte tag over the whole message, which is not the tag of the object
\* that accumulated nothing.
C2_Witness ==
    /\ call.op = "finish"
    /\ hist.fed = MaxLen
    /\ Len(ret.enc) = 16
    /\ ret.enc = ret.mac
    /\ ret.enc # ret.str

\* C3: for each of encrypt, decrypt, macOnly and stream, feeding the pieces
\* of any split through successive calls gives the concatenated output, and
\* the tag of a following finish, of one call over the whole input.
C3_ChunkInvariance ==
    /\ call.op = "feed" =>
          /\ hist.cipher = Whole("encrypt").ret
          /\ hist.plain = Whole("decrypt").ret
          /\ hist.macd = Whole("macOnly").ret
          /\ hist.streamed = Whole("stream").ret
    /\ call.op = "finish" =>
          /\ ret.enc = finish(Whole("encrypt").s, call.buffer, NULL).ret
          /\ ret.dec = finish(Whole("decrypt").s, call.buffer, NULL).ret
          /\ ret.mac = finish(Whole("macOnly").s, call.buffer, NULL).ret
          /\ ret.str = finish(Whole("stream").s, call.buffer, NULL).ret

\* A tag over the whole message, fed in pieces of which one began inside a
\* word.
C3_Witness ==
    /\ call.op = "finish"
    /\ hist.fed = MaxLen
    /\ hist.cut
    /\ Len(ret.enc) = 16
    /\ ret.enc = finish(Whole("encrypt").s, call.buffer, NULL).ret

----------------------------------------------------------------------------
(* Claim about a key given to a used object (SpecRekey).                   *)

\* C5: after key(K), whatever was done on the object before, the bytes the
\* calls return are those the same calls return on a fresh object keyed
\* with K.
C5_KeyForgetsEarlierSession == hist.phase = "new" => ret.used = ret.fresh

=============================================================================
